---- MODULE Spec2Model ----
(***************************************************************************)
(* Model of the ingestion -> validation -> summary -> retention pipeline   *)
(* of the Chemical Equipment Visualizer backend:                           *)
(*   backend/api/utils.py   parse_csv_data, calculate_summary              *)
(*   backend/api/models.py  Dataset, Dataset.cleanup_old_records           *)
(*   backend/api/views.py   upload_csv, the read views, delete_dataset,    *)
(*                          the auth views                                 *)
(* and of the desktop client that calls it:                                *)
(*   frontend-desktop/main.py        UploadTab, MainWindow.download_pdf    *)
(*   frontend-desktop/api_client.py  APIClient                             *)
(*                                                                         *)
(* Numbers are held in hundredths (10 is 1000, 2.5 is 250), so that the    *)
(* two-decimal rounding of calculate_summary is integer arithmetic.        *)
(***************************************************************************)
EXTENDS Integers, Sequences, FiniteSets, TLC

\* ------------------------------------------------------------------ bounds
\* Number of request handlers (worker threads/processes) serving uploads.
NProc == 2
\* Total number of Datasets ever created in one behaviour of Spec / SeqSpec.
MaxUploads == 7
\* Largest number of data rows of the CSV files that IngestSpec builds from
\* every combination of cells (the files written out row by row are extra).
MaxRows == 2
\* Total number of upload requests in one behaviour of IngestSpec.
MaxRequests == 1
\* Number of times the wall clock may return the reading it returned last.
MaxTies == 2
\* Number of distinct ids delete_dataset removes in one behaviour of ApiSpec.
MaxDeletes == 1
\* Total number of upload requests in one behaviour of ApiSpec.
MaxApiUploads == 2
\* Total number of uploads the desktop UploadTab starts (UploadTabSpec).
MaxTabUploads == 3
\* Total number of Token rows the server creates (TokenSpec).
MaxKeys == 3

\* ------------------------------------------------------- program constants
\* views.py:73  Dataset.cleanup_old_records(keep_count=5)
KeepCount == 5

\* utils.py:39  required_columns
RequiredColumns ==
    <<"Equipment Name", "Type", "Flowrate", "Pressure", "Temperature">>

\* utils.py:50-52  the three columns passed through pd.to_numeric
NumericColumns == {"Flowrate", "Pressure", "Temperature"}

Range(s) == {s[i] : i \in 1..Len(s)}

\* ----------------------------------------------------------------- state
VARIABLES
    store,        \* the rows of the Dataset table
    nextId,       \* the next primary key the database assigns
    clock,        \* the last reading of the wall clock (timezone.now())
    ties,         \* number of times a reading repeated the one before
    requests,     \* number of upload requests received so far
    pc,           \* per handler: where it is in upload_csv
    req,          \* per handler: the request it is serving
    dataset,      \* per handler: the id of the row its create returned
    ids_to_keep,  \* per handler: the ids read by cleanup_old_records
    undisturbed,  \* per handler: no other handler wrote between its
                  \* count() and its DELETE
    eviction,     \* per handler: the rows its DELETE removed and left
    resp,         \* per handler: the last response it returned
    call,         \* per handler: the view it serves and the pk of the URL
    body,         \* per handler: the data of the response it returned
    deleted,      \* the ids delete_dataset has answered 204 for
    \* the desktop application (frontend-desktop)
    selected_file,    \* UploadTab.selected_file ("None" or a path)
    upload_btn,       \* UploadTab.upload_btn.isEnabled()
    worker,           \* per handler: the APIWorker thread whose request it serves
    current_dataset,  \* MainWindow.current_dataset's id (0 is None)
    pending,          \* the call of the main thread that waits for a response
    message,          \* the title of the message box shown last
    saved,            \* the file at save_path has been written
    token,            \* APIClient.token
    called,           \* the APIClient method called last
    raised,           \* that call raised an exception
    sent,             \* the request that call sent
    users,            \* the server's usernames
    tokens,           \* the server's Token table
    nextKey           \* number of Token rows created so far

serverVars ==
    <<store, nextId, clock, ties, requests, pc, req, dataset, ids_to_keep, undisturbed,
      eviction, resp, call, body, deleted>>

uploadTabVars == <<selected_file, upload_btn, worker>>
mainWindowVars == <<current_dataset, pending, message, saved>>
clientVars == <<token, called, raised, sent, users, tokens, nextKey>>
desktopVars == <<uploadTabVars, mainWindowVars, clientVars>>

vars == <<serverVars, desktopVars>>

\* ------------------------------------------------------------ CSV cells
\* A raw CSV cell is a string.  The cell vocabulary of the model:
\*   ""      an empty cell (pd.read_csv reads it as NaN)
\*   "abc"   text that is not a number
\*   "10", "20", "2", "4", "25", "35"   integer literals
\*   "2.5", "10.0"                      floating point literals
IntLiterals == {"10", "20", "2", "4", "25", "35"}
FloatLiterals == {"2.5", "10.0"}

\* Value of a numeric literal, in hundredths.
LitValue(s) ==
    CASE s = "10" -> 1000
      [] s = "20" -> 2000
      [] s = "2" -> 200
      [] s = "4" -> 400
      [] s = "25" -> 2500
      [] s = "35" -> 3500
      [] s = "2.5" -> 250
      [] s = "10.0" -> 1000
      [] OTHER -> 0

\* pd.read_csv default na_values: the empty cell is missing.
IsNA(s) == s = ""
IsIntLit(s) == s \in IntLiterals
IsNumLit(s) == s \in IntLiterals \cup FloatLiterals

\* A number as Python holds it: t is "float", "int" (a Python int),
\* "int64" (a numpy integer scalar) or "nan"; v is the value in hundredths.
NaN == [t |-> "nan", v |-> 0]
Num(t, v) == [t |-> t, v |-> v]
IsFinite(x) == x.t # "nan"

\* ------------------------------------------------------ parse_csv_data
\* An uploaded file's content: kind is "csv" (text with a header line and
\* data rows), "undecodable" (bytes that are not UTF-8) or "empty" (no
\* header line at all).  header is the set of column labels of the header
\* line; rows[i][c] is the raw cell of row i in column c.
Content(kind, header, rows) == [kind |-> kind, header |-> header, rows |-> rows]

\* Fault variant of dropna: the subset names only the three numeric columns,
\* so a row with an empty name or type is kept.
dropna_NumericOnly(rows) ==
    SelectSeq(rows, LAMBDA r : \A c \in NumericColumns : ~IsNA(r[c]))

\* Fault variant of dropna: the surviving rows come out last row first.
dropna_Reversed(rows) ==
    LET kept == SelectSeq(rows, LAMBDA r : \A c \in Range(RequiredColumns) : ~IsNA(r[c]))
    IN  [i \in 1..Len(kept) |-> kept[Len(kept) + 1 - i]]

\* utils.py:47  df.dropna(subset=required_columns)
dropna(rows) ==
    SelectSeq(rows, LAMBDA r : \A c \in Range(RequiredColumns) : ~IsNA(r[c]))

\* utils.py:36  the dtype pd.read_csv infers for column c: int64 when every
\* cell is an integer literal, float64 when every cell is a number or is
\* missing, object (the cells stay strings) when some cell is other text.
ReadDtype(rows, c) ==
    IF \E i \in 1..Len(rows) : ~IsNA(rows[i][c]) /\ ~IsNumLit(rows[i][c])
        THEN "object"
    ELSE IF rows # <<>> /\ \A i \in 1..Len(rows) : IsIntLit(rows[i][c])
        THEN "int64"
    ELSE "float64"

\* utils.py:50-52  the dtype of column c after pd.to_numeric(errors='coerce'):
\* a numeric column keeps its dtype; an object column becomes int64 when
\* all its remaining strings are integer literals, float64 otherwise.
NumericDtype(rows, c) ==
    LET kept == dropna(rows)
        read == ReadDtype(rows, c)
    IN  IF read # "object" THEN read
        ELSE IF kept # <<>> /\ \A i \in 1..Len(kept) : IsIntLit(kept[i][c])
            THEN "int64"
        ELSE "float64"

\* utils.py:50-52  pd.to_numeric(errors='coerce') on one cell: a cell that
\* does not parse as a number becomes NaN (the row is kept).
to_numeric(s, dtype) ==
    IF IsNumLit(s)
        THEN Num(IF dtype = "int64" THEN "int64" ELSE "float", LitValue(s))
        ELSE NaN

\* utils.py:46-52  the cleaned DataFrame: rows with a missing required
\* value removed, then the three numeric columns coerced.
CleanFrame(rows) ==
    LET kept == dropna(rows)
        dtypes == [c \in NumericColumns |-> NumericDtype(rows, c)]
    IN  [rows |-> [i \in 1..Len(kept) |->
                     [c \in Range(RequiredColumns) |->
                        IF c \in NumericColumns
                            THEN to_numeric(kept[i][c], dtypes[c])
                            ELSE kept[i][c]]],
         dtypes |-> dtypes]

\* utils.py:55  df.to_dict('records'): numpy scalars are boxed to Python's.
to_dict(df) ==
    [i \in 1..Len(df.rows) |->
        [c \in Range(RequiredColumns) |->
            IF c \in NumericColumns /\ df.rows[i][c].t = "int64"
                THEN Num("int", df.rows[i][c].v)
                ELSE df.rows[i][c]]]

\* Fault variant of parse_csv_data: bytes that are not UTF-8 are decoded
\* with errors ignored and read as a file with all columns and no rows.
parse_csv_data_IgnoreDecodeErrors(content) ==
    IF content.kind = "undecodable" THEN
        [error |-> "none", data_list |-> <<>>, df |-> CleanFrame(<<>>)]
    ELSE IF content.kind = "empty" THEN
        [error |-> "ValueError", data_list |-> <<>>, df |-> CleanFrame(<<>>)]
    ELSE IF \E c \in Range(RequiredColumns) : c \notin content.header THEN
        [error |-> "ValueError", data_list |-> <<>>, df |-> CleanFrame(<<>>)]
    ELSE
        LET df == CleanFrame(content.rows)
        IN  [error |-> "none", data_list |-> to_dict(df), df |-> df]

\* Fault variant of parse_csv_data: the check of the required columns
\* (utils.py:42-44) is left out.
parse_csv_data_NoSchemaCheck(content) ==
    IF content.kind # "csv" THEN
        [error |-> "ValueError", data_list |-> <<>>, df |-> CleanFrame(<<>>)]
    ELSE
        LET df == CleanFrame(content.rows)
        IN  [error |-> "none", data_list |-> to_dict(df), df |-> df]

\* utils.py:31-57  parse_csv_data: the error raised, or the pair
\* (data_list, df).  UnicodeDecodeError and pandas' EmptyDataError are
\* subclasses of ValueError.
parse_csv_data(content) ==
    IF content.kind = "undecodable" THEN
        [error |-> "ValueError", data_list |-> <<>>, df |-> CleanFrame(<<>>)]
    ELSE IF content.kind = "empty" THEN
        [error |-> "ValueError", data_list |-> <<>>, df |-> CleanFrame(<<>>)]
    ELSE IF \E c \in Range(RequiredColumns) : c \notin content.header THEN
        [error |-> "ValueError", data_list |-> <<>>, df |-> CleanFrame(<<>>)]
    ELSE
        LET df == CleanFrame(content.rows)
        IN  [error |-> "none", data_list |-> to_dict(df), df |-> df]

\* --------------------------------------------------- calculate_summary
\* The key of the aggregate maps for each numeric column (utils.py:82-107).
FieldKeys == {"flowrate", "pressure", "temperature"}
ColumnOf(k) ==
    CASE k = "flowrate" -> "Flowrate"
      [] k = "pressure" -> "Pressure"
      [] k = "temperature" -> "Temperature"

RECURSIVE SumSeq(_)
SumSeq(s) == IF s = <<>> THEN 0 ELSE Head(s) + SumSeq(Tail(s))

\* num/den (num >= 0, den > 0) rounded to the nearest integer, halves to
\* the even neighbour: Python's round(x, 2) on a value held in hundredths.
RoundHalfEven(num, den) ==
    LET q == num \div den
        r == num % den
    IN  IF 2 * r < den THEN q
        ELSE IF 2 * r > den THEN q + 1
        ELSE IF q % 2 = 0 THEN q ELSE q + 1

\* Largest r in lo..hi with r * r <= n.
RECURSIVE IsqrtIn(_, _, _)
IsqrtIn(n, lo, hi) ==
    IF lo >= hi THEN lo
    ELSE LET mid == (lo + hi + 1) \div 2
         IN  IF mid * mid <= n THEN IsqrtIn(n, mid, hi)
                               ELSE IsqrtIn(n, lo, mid - 1)
Isqrt(n) == IsqrtIn(n, 0, 46340)

\* The values of a column that pandas' reductions see (skipna=True).
Valid(df, c) ==
    LET vals == [i \in 1..Len(df.rows) |-> df.rows[i][c]]
    IN  [i \in 1..Len(SelectSeq(vals, IsFinite)) |->
            SelectSeq(vals, IsFinite)[i].v]

\* utils.py:83-85  round(df[c].mean(), 2): a float, NaN when no value.
Mean(df, c) ==
    LET xs == Valid(df, c)
    IN  IF xs = <<>> THEN NaN
        ELSE Num("float", RoundHalfEven(SumSeq(xs), Len(xs)))

\* Fault variant of Min: the first value of the column instead of the
\* smallest.
Min_FirstValue(df, c) ==
    LET xs == Valid(df, c)
    IN  IF xs = <<>> THEN NaN
        ELSE Num(IF df.dtypes[c] = "int64" THEN "int64" ELSE "float", xs[1])

\* utils.py:90-92  round(df[c].min(), 2): the reduction of an int64 column
\* is a numpy int64 scalar and round() keeps it one; NaN when no value.
Min(df, c) ==
    LET xs == Valid(df, c)
    IN  IF xs = <<>> THEN NaN
        ELSE Num(IF df.dtypes[c] = "int64" THEN "int64" ELSE "float",
                 CHOOSE x \in Range(xs) : \A y \in Range(xs) : x <= y)

\* utils.py:97-99  round(df[c].max(), 2)
Max(df, c) ==
    LET xs == Valid(df, c)
    IN  IF xs = <<>> THEN NaN
        ELSE Num(IF df.dtypes[c] = "int64" THEN "int64" ELSE "float",
                 CHOOSE x \in Range(xs) : \A y \in Range(xs) : x >= y)

\* utils.py:104-106  round(df[c].std(), 2): the sample standard deviation
\* (ddof = 1), NaN with fewer than two values.  With n values of sum S,
\* std = sqrt(Q / D) for Q = sum (n*x - S)^2 and D = n*n*(n-1).
Std(df, c) ==
    LET xs == Valid(df, c)
        n == Len(xs)
        S == SumSeq(xs)
        Q == SumSeq([i \in 1..n |-> (n * xs[i] - S) * (n * xs[i] - S)])
        D == n * n * (n - 1)
        t == Isqrt((4 * Q) \div D)
    IN  IF n < 2 THEN NaN
        ELSE IF t * t * D = 4 * Q /\ t % 2 = 1
            THEN Num("float", IF ((t - 1) \div 2) % 2 = 0
                                 THEN (t - 1) \div 2 ELSE (t + 1) \div 2)
        ELSE Num("float", (t + 1) \div 2)

\* df['Type'] as a sequence.
Types(df) == [i \in 1..Len(df.rows) |-> df.rows[i]["Type"]]

\* Fault variant of value_counts: every type present is counted once.
value_counts_Presence(types) == [t \in Range(types) |-> 1]

\* utils.py:110  df['Type'].value_counts().to_dict()
value_counts(types) ==
    [t \in Range(types) |-> Cardinality({i \in 1..Len(types) : types[i] = t})]

\* Fault variant of unique: the column as a list, repeated values kept.
unique_Repeated(types) == types

\* utils.py:113  df['Type'].unique().tolist(): the distinct values in order
\* of first appearance.
unique(types) ==
    LET first == {i \in 1..Len(types) : \A j \in 1..(i - 1) : types[j] # types[i]}
        idx == [i \in 1..Len(types) |-> i]
    IN  [k \in 1..Cardinality(first) |->
            types[SelectSeq(idx, LAMBDA i : i \in first)[k]]]

\* Fault variant of calculate_summary: total_count is kept in a counter of
\* the module that every call adds to, instead of being len(df).
calculate_summary_RunningCount(df) ==
    [total_count |-> Len(df.rows) + requests,
     averages |-> [k \in FieldKeys |-> Mean(df, ColumnOf(k))],
     minimums |-> [k \in FieldKeys |-> Min(df, ColumnOf(k))],
     maximums |-> [k \in FieldKeys |-> Max(df, ColumnOf(k))],
     std_deviations |-> [k \in FieldKeys |-> Std(df, ColumnOf(k))],
     type_distribution |-> value_counts(Types(df)),
     equipment_types |-> unique(Types(df))]

\* utils.py:60-116  calculate_summary
calculate_summary(df) ==
    [total_count |-> Len(df.rows),
     averages |-> [k \in FieldKeys |-> Mean(df, ColumnOf(k))],
     minimums |-> [k \in FieldKeys |-> Min(df, ColumnOf(k))],
     maximums |-> [k \in FieldKeys |-> Max(df, ColumnOf(k))],
     std_deviations |-> [k \in FieldKeys |-> Std(df, ColumnOf(k))],
     type_distribution |-> value_counts(Types(df)),
     equipment_types |-> unique(Types(df))]

\* ------------------------------------------------------------------ JSON
\* json.dumps accepts Python ints and floats (NaN included, allow_nan is on
\* by default) and raises TypeError on a numpy int64 scalar.
SummaryNumbers(summary) ==
    {summary[m][k] : m \in {"averages", "minimums", "maximums", "std_deviations"},
                     k \in FieldKeys}

RecordNumbers(data_list) ==
    {data_list[i][c] : i \in 1..Len(data_list), c \in NumericColumns}

\* views.py:67-68  whether json.dumps(data_list) and json.dumps(summary)
\* both return.
JsonSerializable(data_list, summary) ==
    \A x \in RecordNumbers(data_list) \cup SummaryNumbers(summary) : x.t # "int64"

\* views.py:67-68  json.dumps: the text of a value; models.py:46,50
\* json.loads: the value of a text.
json_dumps(value) == <<"json", value>>
json_loads(text) == text[2]

Procs == 1..NProc

\* Fault variant of Dataset: the row is inserted with the summary of an empty
\* frame, the real summary to be written by a later statement.
Dataset_SummaryUnset(id, name, now, data_list, summary) ==
    [id |-> id,
     name |-> name,
     uploaded_at |-> now,
     raw_data |-> json_dumps(data_list),
     summary |-> json_dumps([summary EXCEPT !.total_count = 0]),
     record_count |-> Len(data_list)]

\* Fault variant of Dataset: the row is inserted with record_count at its
\* field default (0), to be written by a later statement.
Dataset_CountUnset(id, name, now, data_list, summary) ==
    [id |-> id,
     name |-> name,
     uploaded_at |-> now,
     raw_data |-> json_dumps(data_list),
     summary |-> json_dumps(summary),
     record_count |-> 0]

\* models.py:12-39  a row of the Dataset table.  uploaded_by is an opaque
\* owner tag and is left out.
Dataset(id, name, now, data_list, summary) ==
    [id |-> id,
     name |-> name,
     uploaded_at |-> now,
     raw_data |-> json_dumps(data_list),
     summary |-> json_dumps(summary),
     record_count |-> Len(data_list)]

\* models.py:44-50  Dataset.get_raw_data / Dataset.get_summary
get_raw_data(d) == json_loads(d.raw_data)
get_summary(d) == json_loads(d.summary)

Ids(S) == {d.id : d \in S}

\* views.py:38,44  an upload request: whether request.FILES has 'file', the
\* uploaded file's name and its content.
Request(has_file, name, content) ==
    [has_file |-> has_file, name |-> name, content |-> content]

\* views.py:47  uploaded_file.name.endswith('.csv')
EndsWithCsv(name) == name \in {"data.csv", "b.csv"}

\* The request and response slots of a handler that serves no request.
NoRequest == Request(FALSE, "", Content("empty", {}, <<>>))
NoResponse == [status |-> 0, id |-> 0]
Response(status, id) == [status |-> status, id |-> id]

\* Fault variant of Ingest: the file's name is not looked at (views.py:47-51
\* left out), so a file of any name is read and parsed.
Ingest_NameUnchecked(r, id, now) ==
    IF ~r.has_file THEN [status |-> 400, rows |-> {}]
    ELSE LET parsed == parse_csv_data(r.content)
             summary == calculate_summary(parsed.df)
         IN  IF parsed.error = "ValueError" THEN [status |-> 400, rows |-> {}]
             ELSE IF ~JsonSerializable(parsed.data_list, summary)
                 THEN [status |-> 500, rows |-> {}]
             ELSE [status |-> 0,
                   rows |-> {Dataset(id, r.name, now, parsed.data_list, summary)}]

\* views.py:37-70 and 82-91  what upload_csv does up to and including
\* Dataset.objects.create: the status it answers with when it stops before
\* the create (400 or 500), or 0 and the row it inserts.
Ingest(r, id, now) ==
    IF ~r.has_file THEN [status |-> 400, rows |-> {}]
    ELSE IF ~EndsWithCsv(r.name) THEN [status |-> 400, rows |-> {}]
    ELSE LET parsed == parse_csv_data(r.content)
             summary == calculate_summary(parsed.df)
         IN  IF parsed.error = "ValueError" THEN [status |-> 400, rows |-> {}]
             ELSE IF ~JsonSerializable(parsed.data_list, summary)
                 THEN [status |-> 500, rows |-> {}]
             ELSE [status |-> 0,
                   rows |-> {Dataset(id, r.name, now, parsed.data_list, summary)}]

\* Fault variant of TopIds: the table ordered by uploaded_at ascending, so
\* the slice holds the oldest rows.
TopIdsOldest(S, n) ==
    {Ids(K) : K \in {K \in SUBSET S :
        /\ Cardinality(K) = IF Cardinality(S) < n THEN Cardinality(S) ELSE n
        /\ \A k \in K : \A d \in S \ K : k.uploaded_at <= d.uploaded_at}}

\* models.py:39,61  the id sets that datasets[:keep_count] can return: the
\* table is ordered by -uploaded_at only, so rows with equal uploaded_at
\* come in an order the database chooses.
TopIds(S, n) ==
    {Ids(K) : K \in {K \in SUBSET S :
        /\ Cardinality(K) = IF Cardinality(S) < n THEN Cardinality(S) ELSE n
        /\ \A k \in K : \A d \in S \ K : k.uploaded_at >= d.uploaded_at}}

\* models.py:39  the sequences Dataset.objects.all() can return: ordered by
\* -uploaded_at, rows with equal uploaded_at in any order.
RECURSIVE Ordered(_)
Ordered(S) ==
    IF S = {} THEN {<<>>}
    ELSE UNION {{<<d>> \o rest : rest \in Ordered(S \ {d})} :
                d \in {d \in S : \A e \in S : d.uploaded_at >= e.uploaded_at}}

\* models.py:63  cls.objects.exclude(id__in=ids).delete()
ExcludeDelete(S, ids) == {d \in S : d.id \in ids}

\* Handler p writes the table: every other handler that is between its
\* count() and its DELETE is disturbed.
Disturb(p) ==
    [q \in Procs |->
        IF q # p /\ pc[q] \in {"read", "delete"} THEN FALSE ELSE undisturbed[q]]

NoEviction == [deleted |-> {}, kept |-> {}]

\* urls.py  the view a request is routed to and the <int:pk> of its URL
\* (0 for the views that take none).
Call(view, pk) == [view |-> view, pk |-> pk]
NoCall == Call("none", 0)

\* The data of a response that carries no Dataset.
NoBody == <<>>

\* ---------------------------------------------------------------- actions
\* A handler receives an upload request.
Receive(p, r) ==
    /\ pc[p] = "idle"
    /\ pc' = [pc EXCEPT ![p] = "recv"]
    /\ req' = [req EXCEPT ![p] = r]
    /\ resp' = [resp EXCEPT ![p] = NoResponse]
    /\ requests' = requests + 1
    /\ call' = [call EXCEPT ![p] = Call("upload_csv", 0)]
    /\ UNCHANGED desktopVars
    /\ UNCHANGED <<store, nextId, clock, ties, dataset, ids_to_keep, undisturbed, eviction,
                   body, deleted>>

\* views.py:37-70, 82-91  upload_csv from its first line to the return of
\* Dataset.objects.create (auto_now_add stamps the row with the clock).
UploadCreate(p, now) ==
    /\ pc[p] = "recv"
    /\ LET out == Ingest(req[p], nextId, now)
       IN  IF out.status # 0
           THEN /\ resp' = [resp EXCEPT ![p] = Response(out.status, 0)]
                /\ pc' = [pc EXCEPT ![p] = "done"]
                /\ UNCHANGED <<store, nextId, clock, ties, dataset, undisturbed>>
           ELSE /\ store' = store \cup out.rows
                /\ dataset' = [dataset EXCEPT ![p] = nextId]
                /\ nextId' = nextId + 1
                /\ clock' = now
                /\ ties' = IF now = clock THEN ties + 1 ELSE ties
                /\ undisturbed' = Disturb(p)
                /\ pc' = [pc EXCEPT ![p] = "count"]
                /\ UNCHANGED resp
    /\ UNCHANGED desktopVars
    /\ UNCHANGED <<requests, req, ids_to_keep, eviction, call, body, deleted>>

\* Fault variant of CleanupCount: the test is count() >= keep_count and the
\* slice keeps keep_count - 1 rows, so a table at the cap loses a row.
CleanupCount_EvictAtCap(p) ==
    /\ pc[p] = "count"
    /\ IF Cardinality(store) >= KeepCount
       THEN \E ids \in TopIds(store, KeepCount - 1) :
                store' = ExcludeDelete(store, ids)
       ELSE UNCHANGED store
    /\ pc' = [pc EXCEPT ![p] = "done"]
    /\ resp' = [resp EXCEPT ![p] = Response(201, dataset[p])]
    /\ UNCHANGED desktopVars
    /\ UNCHANGED <<nextId, clock, ties, requests, req, dataset, ids_to_keep, eviction,
                   undisturbed, call, body, deleted>>

\* models.py:58-59  cleanup_old_records: datasets.count() > keep_count; when
\* it is not, views.py:76-80 answers 201.
CleanupCount(p) ==
    /\ pc[p] = "count"
    /\ IF Cardinality(store) > KeepCount
       THEN /\ pc' = [pc EXCEPT ![p] = "read"]
            /\ undisturbed' = [undisturbed EXCEPT ![p] = TRUE]
            /\ UNCHANGED resp
       ELSE /\ pc' = [pc EXCEPT ![p] = "done"]
            /\ resp' = [resp EXCEPT ![p] = Response(201, dataset[p])]
            /\ UNCHANGED undisturbed
    /\ UNCHANGED desktopVars
    /\ UNCHANGED <<store, nextId, clock, ties, requests, req, dataset, ids_to_keep, eviction,
                   call, body, deleted>>

\* models.py:61,63  list(ids_to_keep): the query datasets[:keep_count] is
\* lazy and runs here, as a statement of its own.
CleanupRead(p) ==
    /\ pc[p] = "read"
    /\ \E ids \in TopIds(store, KeepCount) :
           ids_to_keep' = [ids_to_keep EXCEPT ![p] = ids]
    /\ pc' = [pc EXCEPT ![p] = "delete"]
    /\ UNCHANGED desktopVars
    /\ UNCHANGED <<store, nextId, clock, ties, requests, req, dataset, undisturbed,
                   eviction, resp, call, body, deleted>>

\* models.py:63  the DELETE statement, then views.py:76-80 answers 201 with
\* the Dataset object the create returned.
CleanupDelete(p) ==
    /\ pc[p] = "delete"
    /\ store' = ExcludeDelete(store, ids_to_keep[p])
    /\ eviction' = [eviction EXCEPT ![p] = [deleted |-> store \ store',
                                            kept |-> store']]
    /\ undisturbed' = Disturb(p)
    /\ pc' = [pc EXCEPT ![p] = "done"]
    /\ resp' = [resp EXCEPT ![p] = Response(201, dataset[p])]
    /\ UNCHANGED desktopVars
    /\ UNCHANGED <<nextId, clock, ties, requests, req, dataset, ids_to_keep, call, body,
                   deleted>>

\* models.py:58-63, views.py:73, 87-91  a statement of cleanup_old_records
\* (the count, the SELECT or the DELETE) raises a database error: the
\* statement changes nothing, upload_csv's except Exception answers 500, and
\* the row the create inserted stays (no transaction surrounds the two).
CleanupRaises(p) ==
    /\ pc[p] \in {"count", "read", "delete"}
    /\ pc' = [pc EXCEPT ![p] = "done"]
    /\ resp' = [resp EXCEPT ![p] = Response(500, 0)]
    /\ UNCHANGED desktopVars
    /\ UNCHANGED <<store, nextId, clock, ties, requests, req, dataset, ids_to_keep,
                   undisturbed, eviction, call, body, deleted>>

\* upload_csv has returned its response: the handler's locals are gone and
\* it is free to serve the next request.
Return(p) ==
    /\ pc[p] = "done"
    /\ pc' = [pc EXCEPT ![p] = "idle"]
    /\ req' = [req EXCEPT ![p] = NoRequest]
    /\ dataset' = [dataset EXCEPT ![p] = 0]
    /\ ids_to_keep' = [ids_to_keep EXCEPT ![p] = {}]
    /\ resp' = [resp EXCEPT ![p] = NoResponse]
    /\ undisturbed' = [undisturbed EXCEPT ![p] = FALSE]
    /\ eviction' = [eviction EXCEPT ![p] = NoEviction]
    /\ call' = [call EXCEPT ![p] = NoCall]
    /\ body' = [body EXCEPT ![p] = NoBody]
    /\ UNCHANGED desktopVars
    /\ UNCHANGED <<store, nextId, clock, ties, requests, deleted>>

\* ------------------------------------------------- the views that read
\* serializers.py:11-43  DatasetSerializer: the fields of a full Dataset.
DatasetSerializer(d) ==
    [id |-> d.id,
     name |-> d.name,
     uploaded_at |-> d.uploaded_at,
     record_count |-> d.record_count,
     raw_data_parsed |-> get_raw_data(d),
     summary_parsed |-> get_summary(d)]

\* serializers.py:46-59  DatasetListSerializer: a history entry, no records.
DatasetListSerializer(d) ==
    [id |-> d.id,
     name |-> d.name,
     uploaded_at |-> d.uploaded_at,
     record_count |-> d.record_count,
     summary_parsed |-> get_summary(d)]

\* Dataset.objects.get(pk=pk): the rows with that primary key; none is
\* Dataset.DoesNotExist.
Get(S, pk) == {d \in S : d.id = pk}

\* models.py:39, views.py:129  the rows Dataset.objects.first() can return:
\* a row with the greatest uploaded_at.
First(S) == {d \in S : \A e \in S : d.uploaded_at >= e.uploaded_at}

\* views.py:153  the listings Dataset.objects.all()[:5] can return.
Slice(l, n) == [i \in 1..(IF Len(l) < n THEN Len(l) ELSE n) |-> l[i]]
History(S) == {Slice(l, 5) : l \in Ordered(S)}

\* utils.py:119-261  generate_pdf_report: the report's dataset line, its
\* summary table, its type table and its data table.
generate_pdf_report(d) ==
    [dataset |-> d.name,
     summary |-> [m \in {"averages", "minimums", "maximums", "std_deviations"} |->
                     get_summary(d)[m]],
     types |-> get_summary(d).type_distribution,
     data |-> get_raw_data(d)]

\* A view that runs one query and answers: the handler's response is set
\* and nothing is written.
Answer(p, c, r, data) ==
    /\ pc[p] = "idle"
    /\ pc' = [pc EXCEPT ![p] = "done"]
    /\ call' = [call EXCEPT ![p] = c]
    /\ resp' = [resp EXCEPT ![p] = r]
    /\ body' = [body EXCEPT ![p] = data]
    /\ UNCHANGED desktopVars
    /\ UNCHANGED <<store, nextId, clock, ties, requests, req, dataset, ids_to_keep,
                   undisturbed, eviction, deleted>>

\* views.py:94-114  get_dataset
get_dataset(p, pk) ==
    IF Get(store, pk) = {}
    THEN Answer(p, Call("get_dataset", pk), Response(404, 0), NoBody)
    ELSE \E d \in Get(store, pk) :
             Answer(p, Call("get_dataset", pk), Response(200, d.id),
                    DatasetSerializer(d))

\* views.py:117-138  get_latest_dataset
get_latest_dataset(p) ==
    IF store = {}
    THEN Answer(p, Call("get_latest_dataset", 0), Response(404, 0), NoBody)
    ELSE \E d \in First(store) :
             Answer(p, Call("get_latest_dataset", 0), Response(200, d.id),
                    DatasetSerializer(d))

\* views.py:141-155  get_history
get_history(p) ==
    \E l \in History(store) :
        Answer(p, Call("get_history", 0), Response(200, 0),
               [i \in 1..Len(l) |-> DatasetListSerializer(l[i])])

\* views.py:158-181  get_summary (the view)
views_get_summary(p, pk) ==
    IF Get(store, pk) = {}
    THEN Answer(p, Call("get_summary", pk), Response(404, 0), NoBody)
    ELSE \E d \in Get(store, pk) :
             Answer(p, Call("get_summary", pk), Response(200, d.id),
                    [id |-> d.id, name |-> d.name, summary |-> get_summary(d)])

\* Fault variant of download_pdf: Dataset.DoesNotExist is not caught and
\* the request ends as a server error.
download_pdf_Uncaught(p, pk) ==
    IF Get(store, pk) = {}
    THEN Answer(p, Call("download_pdf", pk), Response(500, 0), NoBody)
    ELSE \E d \in Get(store, pk) :
             Answer(p, Call("download_pdf", pk), Response(200, d.id),
                    generate_pdf_report(d))

\* views.py:184-212  download_pdf
download_pdf(p, pk) ==
    IF Get(store, pk) = {}
    THEN Answer(p, Call("download_pdf", pk), Response(404, 0), NoBody)
    ELSE \E d \in Get(store, pk) :
             Answer(p, Call("download_pdf", pk), Response(200, d.id),
                    generate_pdf_report(d))

\* ------------------------------------------------------- delete_dataset
\* views.py:224-225, 231-235  delete_dataset: Dataset.objects.get(pk=pk);
\* DoesNotExist is answered 404.
delete_dataset_get(p, pk) ==
    /\ pc[p] = "idle"
    /\ call' = [call EXCEPT ![p] = Call("delete_dataset", pk)]
    /\ IF Get(store, pk) = {}
       THEN /\ pc' = [pc EXCEPT ![p] = "done"]
            /\ resp' = [resp EXCEPT ![p] = Response(404, 0)]
       ELSE /\ pc' = [pc EXCEPT ![p] = "found"]
            /\ UNCHANGED resp
    /\ UNCHANGED desktopVars
    /\ UNCHANGED <<store, nextId, clock, ties, requests, req, dataset, ids_to_keep,
                   undisturbed, eviction, body, deleted>>

\* Fault variant of delete_dataset_delete: 204 is answered and the row is
\* left in the table.
delete_dataset_delete_KeepRow(p) ==
    /\ pc[p] = "found"
    /\ deleted' = deleted \cup {call[p].pk}
    /\ pc' = [pc EXCEPT ![p] = "done"]
    /\ resp' = [resp EXCEPT ![p] = Response(204, call[p].pk)]
    /\ UNCHANGED desktopVars
    /\ UNCHANGED <<store, nextId, clock, ties, requests, req, dataset, ids_to_keep,
                   undisturbed, eviction, call, body>>

\* views.py:226-230  dataset.delete(), a DELETE by primary key that removes
\* the row if it is still there, then the 204 answer.
delete_dataset_delete(p) ==
    /\ pc[p] = "found"
    /\ store' = store \ Get(store, call[p].pk)
    /\ deleted' = deleted \cup {call[p].pk}
    /\ undisturbed' = Disturb(p)
    /\ pc' = [pc EXCEPT ![p] = "done"]
    /\ resp' = [resp EXCEPT ![p] = Response(204, call[p].pk)]
    /\ UNCHANGED desktopVars
    /\ UNCHANGED <<nextId, clock, ties, requests, req, dataset, ids_to_keep, eviction,
                   call, body>>

\* -------------------------------------------------------- the API client
\* api_client.py:43-59  APIClient._handle_response: raises on a status of
\* 400 or more, returns the JSON data otherwise.
handle_response(r, data) ==
    IF r.status >= 400 THEN [raised |-> TRUE, value |-> NoBody]
                       ELSE [raised |-> FALSE, value |-> data]

\* api_client.py:101-115  APIClient.get_latest_dataset: None when the
\* request raised, the data of the response otherwise.
client_get_latest_dataset(r, data) ==
    IF handle_response(r, data).raised
        THEN [none |-> TRUE, value |-> NoBody]
        ELSE [none |-> FALSE, value |-> handle_response(r, data).value]

\* api_client.py:174-188  APIClient.delete_dataset
client_delete_dataset(r) == r.status = 204

\* -------------------------------------------------------- inputs and Init
AllColumns == Range(RequiredColumns)

Row(name, type, flowrate, pressure, temperature) ==
    [c \in AllColumns |->
        CASE c = "Equipment Name" -> name
          [] c = "Type" -> type
          [] c = "Flowrate" -> flowrate
          [] c = "Pressure" -> pressure
          [] c = "Temperature" -> temperature]

\* The file every upload of Spec and SeqSpec sends: one clean row.
StoreRequest ==
    Request(TRUE, "data.csv",
            Content("csv", AllColumns, <<Row("P1", "Pump", "2.5", "2.5", "10.0")>>))

\* A second file, of two clean rows of different types (ApiSpec).
OtherRequest ==
    Request(TRUE, "b.csv",
            Content("csv", AllColumns, <<Row("P1", "Pump", "10.0", "2.5", "10.0"),
                                         Row("V1", "Valve", "2.5", "2.5", "10.0")>>))

\* ---------------------------------------- the desktop application's state
\* main.py:340  no APIWorker; an APIWorker is the state of its thread and the
\* file_path it was given.
NoWorker == [state |-> "none", file |-> "None", result |-> 0]
APIWorker(file) == [state |-> "running", file |-> file, result |-> 0]

\* The main thread waits for no response.
NoPending == [method |-> "none", p |-> 0]

\* api_client.py:33  self.token = None; a token is the key of a row of the
\* server's Token table.
NoToken == [user |-> "None", n |-> 0]
Key(user, n) == [user |-> user, n |-> n]

\* A call that sent no request; a request is its endpoint and the value of
\* its Authorization header (NoToken: the header is absent).
NoSent == [endpoint |-> "none", authorization |-> NoToken]
Sent(endpoint, authorization) == [endpoint |-> endpoint, authorization |-> authorization]

\* The table after n uploads of StoreRequest, one per clock reading.
StoreAfter(n) ==
    {CHOOSE d \in Ingest(StoreRequest, i, i).rows : TRUE : i \in 1..n}

InitWith(n) ==
    /\ nextId = n + 1
    /\ clock = n
    /\ ties = 0
    /\ requests = 0
    /\ pc = [p \in Procs |-> "idle"]
    /\ req = [p \in Procs |-> NoRequest]
    /\ dataset = [p \in Procs |-> 0]
    /\ ids_to_keep = [p \in Procs |-> {}]
    /\ undisturbed = [p \in Procs |-> FALSE]
    /\ eviction = [p \in Procs |-> NoEviction]
    /\ resp = [p \in Procs |-> NoResponse]
    /\ call = [p \in Procs |-> NoCall]
    /\ body = [p \in Procs |-> NoBody]
    /\ deleted = {}
    /\ selected_file = "None"
    /\ upload_btn = FALSE
    /\ worker = [p \in Procs |-> NoWorker]
    /\ current_dataset = 0
    /\ pending = NoPending
    /\ message = ""
    /\ saved = FALSE
    /\ token = NoToken
    /\ called = "none"
    /\ raised = FALSE
    /\ sent = NoSent
    /\ users = {}
    /\ tokens = {}
    /\ nextKey = 0
    /\ store = StoreAfter(n)

\* After construction the table is empty.
Init == InitWith(0)

\* ------------------------------------------------- concurrent uploads
\* models.py:21  the readings timezone.now() can return: the clock does not
\* go back, and it can return the reading it returned last.
Readings == IF ties < MaxTies THEN {clock, clock + 1} ELSE {clock + 1}

Step(p) ==
    \/ \E now \in Readings : UploadCreate(p, now)
    \/ CleanupCount(p)
    \/ CleanupRead(p)
    \/ CleanupDelete(p)
    \/ Return(p)

Next ==
    \E p \in Procs :
        \/ nextId <= MaxUploads /\ Receive(p, StoreRequest)
        \/ Step(p)

Spec == Init /\ [][Next]_vars

\* --------------------- concurrent uploads, every clock reading distinct
RaceStep(p) ==
    \/ UploadCreate(p, clock + 1)
    \/ CleanupCount(p)
    \/ CleanupRead(p)
    \/ CleanupDelete(p)
    \/ Return(p)

RaceNext ==
    \E p \in Procs :
        \/ nextId <= MaxUploads /\ Receive(p, StoreRequest)
        \/ RaceStep(p)

RaceSpec == Init /\ [][RaceNext]_vars

\* ------------------------------------------------- uploads one at a time
OthersIdle(p) == \A q \in Procs \ {p} : pc[q] = "idle"

SeqNext ==
    \E p \in Procs :
        \/ nextId <= MaxUploads /\ OthersIdle(p) /\ Receive(p, StoreRequest)
        \/ Step(p)

SeqSpec == Init /\ [][SeqNext]_vars

\* ------------------------------------------- uploads of arbitrary files
\* The rows of the uploaded files: every combination of these cells.
NameCells == {"", "P1"}
TypeCells == {"Pump", "Valve"}
FlowrateCells == {"", "abc", "10", "2.5"}
PressureCells == {"2.5"}
TemperatureCells == {"10.0"}

Rows ==
    {Row(n, t, f, pr, te) : n \in NameCells, t \in TypeCells, f \in FlowrateCells,
                            pr \in PressureCells, te \in TemperatureCells}

RowSeqs == UNION {[1..n -> Rows] : n \in 0..MaxRows}

\* The header lines: all five required columns, or all but one of them.
Headers == {AllColumns} \cup {AllColumns \ {c} : c \in AllColumns}

Contents ==
    {Content("csv", h, rows) : h \in Headers, rows \in RowSeqs}
        \cup {Content("undecodable", {}, <<>>), Content("empty", {}, <<>>)}

\* The file of two pumps with whole-number readings.
ExampleRows ==
    <<Row("Pump1", "Pump", "10", "2", "25"), Row("Pump2", "Pump", "20", "4", "35")>>

\* A file of three rows whose middle row has no flowrate.
GappedRows ==
    <<Row("A", "Valve", "10.0", "2.5", "10.0"), Row("B", "Pump", "", "2.5", "10.0"),
      Row("C", "Pump", "2.5", "2.5", "10.0")>>

\* A file whose second row has blanks around its name and its type.
PaddedRows ==
    <<Row("P1", "Pump", "2.5", "2.5", "10.0"), Row(" P2 ", " Pump ", "10.0", "2.5", "10.0")>>

Requests ==
    {Request(TRUE, "data.csv", c) : c \in Contents}
        \cup {NoRequest,
              Request(TRUE, "data.txt", StoreRequest.content),
              Request(TRUE, "data.txt", Content("csv", AllColumns, ExampleRows)),
              Request(TRUE, "data.csv", Content("csv", AllColumns, ExampleRows)),
              Request(TRUE, "data.csv", Content("csv", AllColumns, GappedRows)),
              Request(TRUE, "data.csv", Content("csv", AllColumns, PaddedRows))}

\* The table is empty, or holds the KeepCount rows of earlier uploads.
IngestInit == \E n \in {0, KeepCount} : InitWith(n)

IngestNext ==
    \E p \in Procs :
        \/ /\ requests < MaxRequests
           /\ OthersIdle(p)
           /\ \E r \in Requests : Receive(p, r)
        \/ Step(p)

IngestSpec == IngestInit /\ [][IngestNext]_vars

\* ------------------- uploads one at a time, the database can raise
\* The requests: a clean file, a file that is not named .csv, no file.
FaultRequests ==
    {StoreRequest, Request(TRUE, "data.txt", StoreRequest.content), NoRequest}

FaultNext ==
    \E p \in Procs :
        \/ /\ requests < MaxUploads
           /\ OthersIdle(p)
           /\ \E r \in FaultRequests : Receive(p, r)
        \/ RaceStep(p)
        \/ CleanupRaises(p)

FaultSpec == Init /\ [][FaultNext]_vars

\* ------------------------------- uploads, reads and deletes side by side
\* The <int:pk> values of the requests: the first id ever assigned (the
\* first to be evicted), the id assigned last, and one never assigned.
Pks == {1, nextId - 1, nextId} \ {0}

\* No other handler is serving a read or a delete.
NoOtherApiCall(p) ==
    \A q \in Procs \ {p} : call[q].view \in {"none", "upload_csv"}

\* One read or delete at a time, alongside the uploads.
ApiStep(p) ==
    \/ NoOtherApiCall(p) /\ \E pk \in Pks : get_dataset(p, pk)
    \/ NoOtherApiCall(p) /\ get_latest_dataset(p)
    \/ NoOtherApiCall(p) /\ get_history(p)
    \/ NoOtherApiCall(p) /\ \E pk \in Pks : views_get_summary(p, pk)
    \/ NoOtherApiCall(p) /\ \E pk \in Pks : download_pdf(p, pk)
    \/ /\ NoOtherApiCall(p)
       /\ \E pk \in Pks : Cardinality(deleted \cup {pk}) <= MaxDeletes
                            /\ delete_dataset_get(p, pk)
    \/ delete_dataset_delete(p)

\* The table is empty, or holds the KeepCount rows of earlier uploads.
ApiInit == \E n \in {0, KeepCount} : InitWith(n)

ApiNext ==
    \E p \in Procs :
        \/ requests < MaxApiUploads
               /\ \E r \in {StoreRequest, OtherRequest} : Receive(p, r)
        \/ Step(p)
        \/ ApiStep(p)

ApiSpec == ApiInit /\ [][ApiNext]_vars

\* ------------------------------------------- the desktop UploadTab
\* main.py:133-158  the paths the drop area and the file dialog hand over:
\* the dialog's "All Files" filter lets a file that is not .csv through.
Files == {"data.csv", "data.txt"}

\* api_client.py:71-81  the multipart request upload_csv posts for a path.
RequestOf(file) == Request(TRUE, file, StoreRequest.content)

\* main.py:320-328  UploadTab.on_file_selected
on_file_selected(f) ==
    /\ selected_file' = f
    /\ upload_btn' = TRUE
    /\ UNCHANGED <<worker, mainWindowVars, clientVars, serverVars>>

\* main.py:330-343  UploadTab.upload_file, the slot of upload_btn.clicked (a
\* disabled button emits no click): a new APIWorker is started.
upload_file ==
    /\ upload_btn
    /\ IF selected_file = "None"
       THEN UNCHANGED <<upload_btn, worker>>
       ELSE /\ upload_btn' = FALSE
            /\ \E p \in Procs :
                  /\ worker[p] = NoWorker /\ pc[p] = "idle"
                  /\ worker' = [worker EXCEPT ![p] = APIWorker(selected_file)]
    /\ UNCHANGED <<selected_file, mainWindowVars, clientVars, serverVars>>

\* main.py:63-65, api_client.py:71-81  the worker's thread posts its file.
APIWorker_post(p) ==
    /\ worker[p].state = "running"
    /\ Receive(p, RequestOf(worker[p].file))

\* main.py:63-68, api_client.py:43-59, 83  the response has come:
\* _handle_response raises on a status >= 400 and run emits error, otherwise
\* run emits finished with the result.
APIWorker_run(p) ==
    /\ worker[p].state = "running"
    /\ pc[p] = "done"
    /\ worker' = [worker EXCEPT ![p] =
                    IF resp[p].status >= 400
                        THEN [@ EXCEPT !.state = "error"]
                        ELSE [@ EXCEPT !.state = "finished", !.result = resp[p].id]]
    /\ UNCHANGED <<selected_file, upload_btn, mainWindowVars, clientVars, serverVars>>

\* main.py:345-359, 1128-1136  UploadTab.on_upload_success, the slot of the
\* worker's finished signal, and MainWindow.on_upload_complete.
on_upload_success(p) ==
    /\ worker[p].state = "finished"
    /\ upload_btn' = TRUE
    /\ selected_file' = "None"
    /\ message' = "Upload Successful"
    /\ current_dataset' = worker[p].result
    /\ worker' = [worker EXCEPT ![p] = NoWorker]
    /\ UNCHANGED <<pending, saved, clientVars, serverVars>>

\* main.py:361-366  UploadTab.on_upload_error, the slot of the error signal.
on_upload_error(p) ==
    /\ worker[p].state = "error"
    /\ upload_btn' = TRUE
    /\ message' = "Upload Failed"
    /\ worker' = [worker EXCEPT ![p] = NoWorker]
    /\ UNCHANGED <<selected_file, current_dataset, pending, saved, clientVars, serverVars>>

\* The server's handler of a worker's request returns once the worker has
\* its response.
UploadTabStep(p) ==
    \/ APIWorker_post(p)
    \/ UploadCreate(p, clock + 1)
    \/ CleanupCount(p)
    \/ CleanupRead(p)
    \/ CleanupDelete(p)
    \/ APIWorker_run(p)
    \/ worker[p].state # "running" /\ Return(p)
    \/ on_upload_success(p)
    \/ on_upload_error(p)

UploadTabNext ==
    \/ \E f \in Files : on_file_selected(f)
    \/ requests + Cardinality({p \in Procs : worker[p].state = "running" /\ pc[p] = "idle"})
           < MaxTabUploads /\ upload_file
    \/ \E p \in Procs : UploadTabStep(p)

\* The server's table holds the KeepCount rows of earlier uploads.
UploadTabSpec == InitWith(KeepCount) /\ [][UploadTabNext]_vars

\* ------------------------------------------- the desktop MainWindow
\* The main thread calls the APIClient and blocks: the request goes to a
\* free handler of the server.
Pending(method, p) == [method |-> method, p |-> p]

\* main.py:1118-1121  MainWindow.load_initial_data up to the request of
\* api_client.get_latest_dataset.
load_initial_data_call ==
    /\ pending = NoPending
    /\ \E p \in Procs :
          /\ pc[p] = "idle" /\ worker[p] = NoWorker
          /\ pending' = Pending("get_latest_dataset", p)
    /\ UNCHANGED <<current_dataset, message, saved, uploadTabVars, clientVars, serverVars>>

\* main.py:1121-1126, 1134-1136, api_client.py:101-115  the response has
\* come: a Dataset becomes current_dataset, None or an error changes nothing.
load_initial_data_return ==
    /\ pending.method = "get_latest_dataset"
    /\ pc[pending.p] = "done"
    /\ LET dataset_ == client_get_latest_dataset(resp[pending.p], body[pending.p])
       IN  current_dataset' = IF dataset_.none THEN current_dataset ELSE dataset_.value.id
    /\ pending' = NoPending
    /\ UNCHANGED <<message, saved, uploadTabVars, clientVars, serverVars>>

\* main.py:1142-1157, api_client.py:157-165  MainWindow.download_pdf up to the
\* request of api_client.download_pdf: without a current dataset a warning is
\* shown; the save dialog can be cancelled.
MainWindow_download_pdf_call ==
    /\ pending = NoPending
    /\ IF current_dataset = 0
       THEN /\ message' = "No Data"
            /\ UNCHANGED <<pending, saved>>
       ELSE \E file_path \in {"", "report.pdf"} :
               IF file_path = ""
               THEN UNCHANGED <<pending, message, saved>>
               ELSE /\ \E p \in Procs :
                         /\ pc[p] = "idle" /\ worker[p] = NoWorker
                         /\ pending' = Pending("download_pdf", p)
                    /\ saved' = FALSE
                    /\ message' = ""
    /\ UNCHANGED <<current_dataset, uploadTabVars, clientVars, serverVars>>

\* api_client.py:167-172  APIClient.download_pdf once the response has come:
\* on 200 the file is written (open can raise) and True is returned, on any
\* other status False is returned.
client_download_pdf(status, writable) ==
    IF status = 200
        THEN IF writable THEN [raised |-> FALSE, value |-> TRUE, written |-> TRUE]
                         ELSE [raised |-> TRUE, value |-> FALSE, written |-> FALSE]
        ELSE [raised |-> FALSE, value |-> FALSE, written |-> FALSE]

\* main.py:1156-1160  the message box MainWindow.download_pdf shows: the
\* value api_client.download_pdf returned is dropped, only an exception
\* leads to the error box.
MainWindow_message(result) ==
    IF result.raised THEN "Error" ELSE "Success"

\* main.py:1156-1160  MainWindow.download_pdf from the response on.
MainWindow_download_pdf_return ==
    /\ pending.method = "download_pdf"
    /\ pc[pending.p] = "done"
    /\ \E writable \in BOOLEAN :
          LET result == client_download_pdf(resp[pending.p].status, writable)
          IN  /\ saved' = result.written
              /\ message' = MainWindow_message(result)
    /\ pending' = NoPending
    /\ UNCHANGED <<current_dataset, uploadTabVars, clientVars, serverVars>>

\* The server: the handler of the main thread's request, and the deletes of
\* other clients.
MainWindowStep(p) ==
    \/ /\ pending = Pending("get_latest_dataset", p)
       /\ get_latest_dataset(p)
    \/ /\ pending = Pending("download_pdf", p)
       /\ download_pdf(p, current_dataset)
    \/ /\ pending.p # p
       /\ \E pk \in Pks : Cardinality(deleted \cup {pk}) <= MaxDeletes
                            /\ delete_dataset_get(p, pk)
    \/ delete_dataset_delete(p)
    \/ pending.p # p /\ Return(p)

MainWindowNext ==
    \/ load_initial_data_call
    \/ load_initial_data_return
    \/ MainWindow_download_pdf_call
    \/ MainWindow_download_pdf_return
    \/ \E p \in Procs : MainWindowStep(p)

\* The server's table is empty or holds the KeepCount rows of earlier
\* uploads.
MainWindowSpec == ApiInit /\ [][MainWindowNext]_vars

\* ------------------------------------------- the APIClient's token
\* The usernames of the login and register requests.
Usernames == {"alice", "bob"}

\* views.py:254, 291  Token.objects.get_or_create(user=user): the user's row
\* of the Token table, or a new row with a fresh key.
get_or_create(user) ==
    IF \E k \in tokens : k.user = user
        THEN CHOOSE k \in tokens : k.user = user
        ELSE Key(user, nextKey + 1)

\* views.py:240-266  register_user: UserSerializer rejects a username that
\* is taken (400); otherwise the user is created and answered 201 with the
\* token.
register_user(username) ==
    IF username \in users
        THEN [status |-> 400, token |-> NoToken]
        ELSE [status |-> 201, token |-> get_or_create(username)]

\* views.py:269-305  login_user: 401 unless authenticate() finds the user.
login_user(username, password_ok) ==
    IF username \in users /\ password_ok
        THEN [status |-> 200, token |-> get_or_create(username)]
        ELSE [status |-> 401, token |-> NoToken]

\* api_client.py:36-41, 74-75, 158-159  the Authorization header a request
\* is given: "Token <key>" if self.token, none otherwise.
get_headers(t) == IF t # NoToken THEN t ELSE NoToken

\* The server's tables after a response that carries a token.
Issue(k) ==
    /\ users' = users \cup {k.user}
    /\ tokens' = tokens \cup {k}
    /\ nextKey' = IF k \in tokens THEN nextKey ELSE nextKey + 1

\* api_client.py:192-210  APIClient.login.  The request carries no headers
\* argument; a connection error or a status >= 400 raises before the
\* assignment to self.token.
login(username, password_ok, net) ==
    /\ called' = "login"
    /\ sent' = Sent("auth/login/", NoToken)
    /\ LET response == login_user(username, password_ok)
       IN  IF net /\ response.status < 400
           THEN /\ token' = response.token
                /\ raised' = FALSE
                /\ Issue(response.token)
           ELSE /\ raised' = TRUE
                /\ UNCHANGED <<token, users, tokens, nextKey>>
    /\ UNCHANGED <<uploadTabVars, mainWindowVars, serverVars>>

\* api_client.py:212-231  APIClient.register
register(username, net) ==
    /\ called' = "register"
    /\ sent' = Sent("auth/register/", NoToken)
    /\ LET response == register_user(username)
       IN  IF net /\ response.status < 400
           THEN /\ token' = response.token
                /\ raised' = FALSE
                /\ Issue(response.token)
           ELSE /\ raised' = TRUE
                /\ UNCHANGED <<token, users, tokens, nextKey>>
    /\ UNCHANGED <<uploadTabVars, mainWindowVars, serverVars>>

\* Fault variant of logout: the token is cleared only when the request
\* reached the server.
logout_ClearOnSuccess(net) ==
    /\ called' = "logout"
    /\ raised' = FALSE
    /\ IF token # NoToken
       THEN /\ sent' = Sent("auth/logout/", get_headers(token))
            /\ tokens' = IF net THEN tokens \ {token} ELSE tokens
            /\ token' = IF net THEN NoToken ELSE token
       ELSE /\ sent' = NoSent
            /\ UNCHANGED <<tokens, token>>
    /\ UNCHANGED <<users, nextKey, uploadTabVars, mainWindowVars, serverVars>>

\* api_client.py:233-243, views.py:308-321  APIClient.logout: with a token
\* the logout request is posted and any exception is swallowed (the server,
\* when reached with a token of its table, deletes it); then self.token is
\* None.
logout(net) ==
    /\ called' = "logout"
    /\ raised' = FALSE
    /\ IF token # NoToken
       THEN /\ sent' = Sent("auth/logout/", get_headers(token))
            /\ tokens' = IF net THEN tokens \ {token} ELSE tokens
       ELSE /\ sent' = NoSent
            /\ UNCHANGED tokens
    /\ token' = NoToken
    /\ UNCHANGED <<users, nextKey, uploadTabVars, mainWindowVars, serverVars>>

\* api_client.py:61-188  the methods that send a data request: each builds
\* its headers from self.token; net is whether the call returned normally.
DataMethods == {"upload_csv", "get_history", "download_pdf", "delete_dataset"}

client_request(method, net) ==
    /\ called' = method
    /\ sent' = Sent(method, get_headers(token))
    /\ raised' = ~net
    /\ UNCHANGED <<token, users, tokens, nextKey, uploadTabVars, mainWindowVars, serverVars>>

TokenNext ==
    \/ \E u \in Usernames : \E ok \in BOOLEAN : \E net \in BOOLEAN :
           (nextKey < MaxKeys) /\ login(u, ok, net)
    \/ \E u \in Usernames : \E net \in BOOLEAN :
           (nextKey < MaxKeys) /\ register(u, net)
    \/ \E net \in BOOLEAN : logout(net)
    \/ \E m \in DataMethods : \E net \in BOOLEAN : client_request(m, net)

TokenSpec == Init /\ [][TokenNext]_vars

\* ================================================================ claims
\* No upload is in flight.
AllFinished == \A p \in Procs : pc[p] \in {"idle", "done"}

\* The ids of the KeepCount most recently inserted rows (all of them when
\* fewer were inserted): ids are assigned in insertion order from 1.
MostRecentIds == {i \in 1..(nextId - 1) : i > (nextId - 1) - KeepCount}

\* A listing is in descending recency order: later inserted rows first.
DescendingRecency(l) == \A i, j \in 1..Len(l) : i < j => l[i].id > l[j].id

MinOf(a, b) == IF a < b THEN a ELSE b

\* C1 (SeqSpec): after any sequence of uploads run one at a time the table
\* holds at most KeepCount rows, they are exactly the KeepCount most
\* recently inserted ones, and every listing of the table gives them in
\* descending recency order.
C1_RetentionSequential ==
    AllFinished =>
        /\ Cardinality(store) <= KeepCount
        /\ Ids(store) = MostRecentIds
        /\ \A l \in Ordered(store) : DescendingRecency(l)

\* C2 (RaceSpec): with several uploads in flight a reader never sees more
\* than KeepCount + 1 rows and never fewer than min(KeepCount, number of
\* rows inserted so far).
C2_ReaderBounds ==
    /\ Cardinality(store) <= KeepCount + 1
    /\ Cardinality(store) >= MinOf(KeepCount, nextId - 1)

\* C3 (RaceSpec): once every concurrent upload has finished its cleanup the
\* table holds exactly min(KeepCount, total inserted) rows and they are the
\* most recently inserted ones.
C3_SerializedPairs ==
    AllFinished =>
        /\ Cardinality(store) = MinOf(KeepCount, nextId - 1)
        /\ Ids(store) = MostRecentIds

\* C4 (RaceSpec): whenever an eviction step deleted a row D and left a row
\* K, D is not newer than K: D.uploaded_at <= K.uploaded_at and D was not
\* inserted after K.
C4_NoOutOfOrderEviction ==
    \A p \in Procs : \A D \in eviction[p].deleted : \A K \in eviction[p].kept :
        D.uploaded_at <= K.uploaded_at /\ D.id < K.id

\* C5 (Spec): a cleanup that ran without interference on a table of more
\* than KeepCount rows left exactly KeepCount rows, and every row it deleted
\* is at most as new (by uploaded_at) as every row it left, equal
\* uploaded_at values included.
C5_EvictOldestFirst ==
    \A p \in Procs :
        (pc[p] = "done" /\ undisturbed[p]) =>
            /\ Cardinality(eviction[p].kept) = KeepCount
            /\ eviction[p].deleted # {}
            /\ \A D \in eviction[p].deleted : \A K \in eviction[p].kept :
                   D.uploaded_at <= K.uploaded_at

\* C5 witness: an undisturbed cleanup deleted two rows at once, one of them
\* with the same uploaded_at as a row it left.
C5_Witness ==
    \E p \in Procs :
        /\ pc[p] = "done" /\ undisturbed[p]
        /\ Cardinality(eviction[p].deleted) >= 2
        /\ \E D \in eviction[p].deleted : \E K \in eviction[p].kept :
               D.uploaded_at = K.uploaded_at

\* The request handler p serves is a CSV file whose header has all five
\* required columns.
FullHeader(p) ==
    /\ req[p].has_file /\ EndsWithCsv(req[p].name)
    /\ req[p].content.kind = "csv"
    /\ req[p].content.header = AllColumns

\* The request handler p serves is a CSV file whose header lacks column c.
HeaderLacks(p, c) ==
    /\ req[p].has_file /\ EndsWithCsv(req[p].name)
    /\ req[p].content.kind = "csv"
    /\ c \notin req[p].content.header

\* The rows of p's file that have a value in every required column.
CompleteRows(p) ==
    {i \in 1..Len(req[p].content.rows) :
        \A c \in AllColumns : req[p].content.rows[i][c] # ""}

\* The rows of p's file whose three numeric cells are all numbers.
NumericRows(p) ==
    {i \in 1..Len(req[p].content.rows) :
        \A c \in NumericColumns :
            req[p].content.rows[i][c] \in IntLiterals \cup FloatLiterals}

\* Handler p's create has returned and its row is still in the table.
Created(p, d) ==
    /\ pc[p] \in {"count", "read", "delete", "done"}
    /\ dataset[p] # 0
    /\ d \in store /\ d.id = dataset[p]

C7_FiniteNumbers ==
    \A d \in store : \A i \in 1..Len(get_raw_data(d)) : \A c \in NumericColumns :
        IsFinite(get_raw_data(d)[i][c])

\* C8 (IngestSpec): an upload whose header has all five required columns
\* ends with a Dataset created (201), whatever rows have missing values,
\* and the Dataset's records are the rows without a missing value.
C8_MissingValuesNeverAbort ==
    \A p \in Procs :
        (pc[p] = "done" /\ FullHeader(p)) =>
            /\ resp[p].status = 201
            /\ \E d \in store :
                   d.id = dataset[p] /\ d.record_count = Cardinality(CompleteRows(p))

\* C9 (IngestSpec): an upload in which every row has a non-numeric flowrate
\* ends with a Dataset created whose record_count is 0 and whose summary
\* has total_count 0 and aggregates holding the sentinel (NaN).
C9_EmptyAfterValidation ==
    \A p \in Procs :
        (/\ pc[p] = "done" /\ FullHeader(p)
         /\ \A i \in 1..Len(req[p].content.rows) :
                req[p].content.rows[i]["Flowrate"] = "abc") =>
            /\ resp[p].status = 201
            /\ \E d \in store :
                   /\ d.id = dataset[p]
                   /\ d.record_count = 0
                   /\ get_summary(d).total_count = 0
                   /\ \A x \in SummaryNumbers(get_summary(d)) : x = NaN

\* C10 (IngestSpec): an upload whose header lacks a required column is
\* answered 400 by the step that parses it, and that step creates no row
\* and leaves the table as it was.
C10_MissingColumnRejected ==
    [][\A p \in Procs :
          (/\ pc[p] = "recv" /\ pc'[p] # "recv"
           /\ \E c \in AllColumns : HeaderLacks(p, c)) =>
              /\ pc'[p] = "done"
              /\ resp'[p].status = 400
              /\ store' = store
              /\ nextId' = nextId]_vars

\* C10 witness: a file with data rows and no Pressure column was answered
\* 400 while the table held the rows of earlier uploads.
C10_Witness ==
    \E p \in Procs :
        /\ pc[p] = "done" /\ resp[p].status = 400
        /\ HeaderLacks(p, "Pressure")
        /\ req[p].content.rows # <<>>
        /\ store = StoreAfter(KeepCount)

\* The request handler p serves is a CSV-named file that parse_csv_data
\* rejects: bytes that are not UTF-8, text with no header line, or a header
\* that lacks a required column.
ParseFails(p) ==
    /\ req[p].has_file /\ EndsWithCsv(req[p].name)
    /\ \/ req[p].content.kind \in {"undecodable", "empty"}
       \/ \E c \in AllColumns : HeaderLacks(p, c)

\* C11 (IngestSpec): the step of upload_csv that parses a file with a
\* parsing or schema error ends the request (400) without reaching
\* Dataset.objects.create or cleanup_old_records: the table and the id
\* counter are as before and no eviction is recorded.
C11_ParseErrorsAbort ==
    [][\A p \in Procs :
          (pc[p] = "recv" /\ pc'[p] # "recv" /\ ParseFails(p)) =>
              /\ pc'[p] = "done"
              /\ resp'[p].status = 400
              /\ store' = store
              /\ nextId' = nextId
              /\ eviction' = eviction
              /\ ids_to_keep' = ids_to_keep]_vars

\* C11 witness: bytes that are not UTF-8 were answered 400 while the table
\* held the rows of earlier uploads, and no eviction ran.
C11_Witness ==
    \E p \in Procs :
        /\ pc[p] = "done" /\ resp[p].status = 400
        /\ req[p].has_file /\ EndsWithCsv(req[p].name)
        /\ req[p].content.kind = "undecodable"
        /\ eviction[p] = NoEviction
        /\ store = StoreAfter(KeepCount)

\* The views that return Datasets, and the ids of the Datasets in the
\* response a handler returned.
ReadViews ==
    {"get_dataset", "get_latest_dataset", "get_history", "get_summary", "download_pdf"}

ReturnedIds(r, data, c) ==
    IF c.view = "get_history" THEN {data[i].id : i \in 1..Len(data)}
    ELSE IF r.status = 200 THEN {r.id}
    ELSE {}

\* C12 (ApiSpec): the delete request that removes id X is answered 204
\* (the client returns True) and leaves X out of the table; every delete
\* request for X served after that is answered 404 (the client returns
\* False) and changes nothing; and no history or get request served after
\* it returns X.
C12_DeleteTwice ==
    [][\A p \in Procs :
          /\ (pc[p] = "found" /\ pc'[p] = "done") =>
                 /\ resp'[p].status = 204
                 /\ client_delete_dataset(resp'[p])
                 /\ call[p].pk \notin Ids(store')
          /\ (pc[p] = "idle" /\ call'[p].view = "delete_dataset"
                 /\ call'[p].pk \in deleted) =>
                 /\ pc'[p] = "done"
                 /\ resp'[p].status = 404
                 /\ ~client_delete_dataset(resp'[p])
                 /\ store' = store
          /\ (pc[p] = "idle" /\ call'[p].view \in ReadViews) =>
                 ReturnedIds(resp'[p], body'[p], call'[p]) \cap deleted = {}]_vars

\* C12 witness: a second delete of an id was answered 404 while other rows
\* were still in the table.
C12_Witness ==
    \E p \in Procs :
        /\ pc[p] = "done" /\ call[p].view = "delete_dataset"
        /\ call[p].pk \in deleted
        /\ resp[p].status = 404
        /\ ~client_delete_dataset(resp[p])
        /\ store # {}

\* The file a stored row of ApiSpec was created from (its name tells), and
\* the summary calculate_summary gave for it when the row was created.
FileOf(d) == IF d.name = OtherRequest.name THEN OtherRequest ELSE StoreRequest
StoreSummary == calculate_summary(parse_csv_data(StoreRequest.content).df)
OtherSummary == calculate_summary(parse_csv_data(OtherRequest.content).df)
SummaryAtCreation(d) ==
    IF d.name = OtherRequest.name THEN OtherSummary ELSE StoreSummary

\* C13 (ApiSpec): a row enters the table in one step, the create of an
\* upload, with its records, summary and record_count all written; a row
\* with a given id never changes while it is in the table, so a read returns
\* the summary computed at creation; and a row leaves the table only in a
\* delete_dataset step for its id or in an eviction step of
\* cleanup_old_records that does not keep it.
C13_Lifecycle ==
    [][/\ \A d \in store' \ store :
              \E p \in Procs :
                  /\ pc[p] = "recv" /\ pc'[p] = "count"
                  /\ d.id = nextId /\ d.name = req[p].name
                  /\ get_raw_data(d) = parse_csv_data(req[p].content).data_list
                  /\ get_summary(d) =
                         calculate_summary(parse_csv_data(req[p].content).df)
                  /\ d.record_count = Len(get_raw_data(d))
       /\ Cardinality(store' \ store) <= 1
       /\ \A d \in store : \A e \in store' : e.id = d.id => e = d
       /\ \A d \in store : get_summary(d) = SummaryAtCreation(d)
       /\ \A p \in Procs :
              (pc[p] = "idle" /\ resp'[p].status = 200
                  /\ call'[p].view \in {"get_dataset", "get_latest_dataset"}) =>
                  \E d \in store : /\ d.id = resp'[p].id
                                   /\ body'[p].summary_parsed = SummaryAtCreation(d)
       /\ \A p \in Procs :
              (pc[p] = "idle" /\ resp'[p].status = 200
                  /\ call'[p].view = "get_summary") =>
                  \E d \in store : /\ d.id = resp'[p].id
                                   /\ body'[p].summary = SummaryAtCreation(d)
       /\ \A d \in store \ store' :
              \E p \in Procs :
                  \/ /\ pc[p] = "found" /\ pc'[p] = "done"
                     /\ call[p] = Call("delete_dataset", d.id)
                  \/ /\ pc[p] = "delete" /\ pc'[p] = "done"
                     /\ d.id \notin ids_to_keep[p]]_vars

\* C13 witness: a row created from the two-row file is in the table,
\* returned by get_summary with the summary of that file, after one row
\* was deleted by delete_dataset and others were evicted.
C13_Witness ==
    \E p \in Procs : \E d \in store :
        /\ pc[p] = "done" /\ call[p] = Call("get_summary", d.id)
        /\ resp[p].status = 200
        /\ d.name = OtherRequest.name
        /\ body[p].summary = SummaryAtCreation(d)
        /\ body[p].summary.total_count = 2
        /\ deleted # {}
        /\ 1 \notin Ids(store) /\ 1 \notin deleted /\ nextId > KeepCount

\* C14 (ApiSpec): a history listing has at most 5 entries, in descending
\* order of uploaded_at, and of two entries with the same uploaded_at the
\* one inserted later comes first; an eviction that ran without
\* interference never deleted a row and kept one with the same uploaded_at
\* that was inserted earlier.
C14_HistoryOrder ==
    \A p \in Procs :
        /\ (pc[p] = "done" /\ call[p].view = "get_history") =>
               /\ Len(body[p]) <= 5
               /\ \A i, j \in 1..Len(body[p]) :
                      i < j =>
                          /\ body[p][i].uploaded_at >= body[p][j].uploaded_at
                          /\ body[p][i].uploaded_at = body[p][j].uploaded_at =>
                                 body[p][i].id > body[p][j].id
        /\ (pc[p] = "done" /\ undisturbed[p]) =>
               \A D \in eviction[p].deleted : \A K \in eviction[p].kept :
                   D.uploaded_at = K.uploaded_at => D.id < K.id

\* The stored row that was inserted last: ids are assigned in insertion
\* order.
LastInserted(S) == CHOOSE d \in S : \A e \in S : d.id >= e.id

\* C15 (ApiSpec): get_latest_dataset answers 404 (the client returns None)
\* exactly when the table is empty, and otherwise answers 200 with the
\* stored Dataset that was inserted last.
C15_LatestIsLastInserted ==
    [][\A p \in Procs :
          (pc[p] = "idle" /\ call'[p].view = "get_latest_dataset") =>
              /\ (store = {}) <=> (resp'[p].status = 404)
              /\ (store = {}) <=> client_get_latest_dataset(resp'[p], body'[p]).none
              /\ store # {} =>
                     /\ resp'[p].status = 200
                     /\ body'[p] = DatasetSerializer(LastInserted(store))
                     /\ client_get_latest_dataset(resp'[p], body'[p]).value =
                            DatasetSerializer(LastInserted(store))]_vars

\* The views that look a Dataset up by the pk of the URL.
LookupViews == {"get_dataset", "get_summary", "download_pdf"}

\* The data view v returns for the stored row d.
Rendering(v, d, data) ==
    CASE v = "get_dataset" ->
            /\ data.id = d.id /\ data.name = d.name
            /\ data.record_count = d.record_count
            /\ data.raw_data_parsed = get_raw_data(d)
            /\ data.summary_parsed = get_summary(d)
      [] v = "get_summary" ->
            data.id = d.id /\ data.name = d.name /\ data.summary = get_summary(d)
      [] v = "download_pdf" ->
            data.dataset = d.name /\ data.data = get_raw_data(d)

\* C16 (ApiSpec): get_dataset, get_summary and download_pdf answer 200
\* with the stored Dataset when the pk is in the table and 404 when it is
\* not (never assigned, evicted or deleted), and none of them writes.
C16_LookupNotFound ==
    [][\A p \in Procs :
          (pc[p] = "idle" /\ call'[p].view \in LookupViews) =>
              /\ store' = store /\ nextId' = nextId /\ deleted' = deleted
              /\ pc'[p] = "done"
              /\ \A d \in store :
                     d.id = call'[p].pk =>
                         /\ resp'[p] = Response(200, d.id)
                         /\ Rendering(call'[p].view, d, body'[p])
              /\ call'[p].pk \notin Ids(store) =>
                     /\ resp'[p].status = 404
                     /\ body'[p] = NoBody]_vars

\* C16 witness: download_pdf answered 404 for an id that was evicted,
\* after another id was deleted.
C16_Witness ==
    \E p \in Procs :
        /\ pc[p] = "done" /\ call[p] = Call("download_pdf", 1)
        /\ resp[p].status = 404
        /\ nextId > KeepCount + 1 /\ 1 \notin deleted /\ deleted # {}
        /\ store # {}

RecordsOf(p) == parse_csv_data(req[p].content).data_list
SummaryOf(p) == calculate_summary(parse_csv_data(req[p].content).df)

\* The values of column c over the records, when all of them are numbers.
ColumnValues(records, c) == [i \in 1..Len(records) |-> records[i][c].v]
AllNumbers(records, c) == \A i \in 1..Len(records) : IsFinite(records[i][c])

\* m is the mean of xs to two decimals: no multiple of a hundredth is
\* nearer to sum(xs) / len(xs).
IsMean(m, xs) ==
    /\ 2 * (Len(xs) * m - SumSeq(xs)) <= Len(xs)
    /\ 2 * (SumSeq(xs) - Len(xs) * m) <= Len(xs)
IsMin(m, xs) == m \in Range(xs) /\ \A x \in Range(xs) : m <= x
IsMax(m, xs) == m \in Range(xs) /\ \A x \in Range(xs) : m >= x

\* C18 (IngestSpec): for the file whose rows are (Pump1, Pump, 10, 2, 25)
\* and (Pump2, Pump, 20, 4, 35) calculate_summary gives averages.flowrate
\* 15.0, minimums.flowrate 10.0, maximums.flowrate 20.0 and
\* type_distribution {Pump: 2}; and for every file, each field whose clean
\* records all hold numbers has an average, minimum and maximum equal in
\* value to the mean (to two decimals), least and greatest of the records.
C18_AveragesMinMax ==
    \A p \in Procs :
        (pc[p] # "idle" /\ FullHeader(p)) =>
            /\ req[p].content.rows = ExampleRows =>
                   /\ SummaryOf(p).averages["flowrate"] = Num("float", 1500)
                   /\ IsFinite(SummaryOf(p).minimums["flowrate"])
                   /\ SummaryOf(p).minimums["flowrate"].v = 1000
                   /\ IsFinite(SummaryOf(p).maximums["flowrate"])
                   /\ SummaryOf(p).maximums["flowrate"].v = 2000
                   /\ DOMAIN SummaryOf(p).type_distribution = {"Pump"}
                   /\ SummaryOf(p).type_distribution["Pump"] = 2
            /\ \A k \in FieldKeys :
                   (RecordsOf(p) # <<>> /\ AllNumbers(RecordsOf(p), ColumnOf(k))) =>
                       /\ IsFinite(SummaryOf(p).averages[k])
                       /\ IsMean(SummaryOf(p).averages[k].v,
                                 ColumnValues(RecordsOf(p), ColumnOf(k)))
                       /\ IsFinite(SummaryOf(p).minimums[k])
                       /\ IsMin(SummaryOf(p).minimums[k].v,
                                ColumnValues(RecordsOf(p), ColumnOf(k)))
                       /\ IsFinite(SummaryOf(p).maximums[k])
                       /\ IsMax(SummaryOf(p).maximums[k].v,
                                ColumnValues(RecordsOf(p), ColumnOf(k)))

\* C18 witness: upload_csv has computed the summary of the two-pump file.
C18_Witness ==
    \E p \in Procs :
        /\ pc[p] = "done" /\ FullHeader(p)
        /\ req[p].content.rows = ExampleRows
        /\ SummaryOf(p).averages["flowrate"].v = 1500
        /\ SummaryOf(p).total_count = 2

\* The type values of the records, and the sum of the counts of a
\* distribution.
TypesOf(records) == {records[i]["Type"] : i \in 1..Len(records)}

RECURSIVE SumCounts(_, _)
SumCounts(dist, keys) ==
    IF keys = {} THEN 0
    ELSE LET k == CHOOSE k \in keys : TRUE
         IN  dist[k] + SumCounts(dist, keys \ {k})

\* C19 (IngestSpec): in the summary of every file, type_distribution has
\* one key per distinct type of the clean records, its value is the number
\* of clean records of that type, and the values sum to total_count.
C19_TypeDistribution ==
    \A p \in Procs :
        (pc[p] # "idle" /\ FullHeader(p)) =>
            /\ DOMAIN SummaryOf(p).type_distribution = TypesOf(RecordsOf(p))
            /\ \A t \in TypesOf(RecordsOf(p)) :
                   SummaryOf(p).type_distribution[t] =
                       Cardinality({i \in 1..Len(RecordsOf(p)) :
                                       RecordsOf(p)[i]["Type"] = t})
            /\ SumCounts(SummaryOf(p).type_distribution,
                         DOMAIN SummaryOf(p).type_distribution)
                   = SummaryOf(p).total_count

\* C19 witness: a stored Dataset of two records of one type, with that
\* type counted twice in its summary.
C19_Witness ==
    \E p \in Procs : \E d \in store :
        /\ Created(p, d) /\ pc[p] = "done"
        /\ get_summary(d) = SummaryOf(p)
        /\ get_summary(d).total_count = 2
        /\ \E t \in DOMAIN get_summary(d).type_distribution :
               get_summary(d).type_distribution[t] = 2

\* C20 (IngestSpec): in the summary of every file, equipment_types lists
\* each distinct type of the clean records exactly once, so its values are
\* the keys of type_distribution.
C20_EquipmentTypes ==
    \A p \in Procs :
        (pc[p] # "idle" /\ FullHeader(p)) =>
            /\ Range(SummaryOf(p).equipment_types) = TypesOf(RecordsOf(p))
            /\ Range(SummaryOf(p).equipment_types)
                   = DOMAIN SummaryOf(p).type_distribution
            /\ Len(SummaryOf(p).equipment_types)
                   = Cardinality(Range(SummaryOf(p).equipment_types))

\* C20 witness: a stored Dataset of two records of one type lists that type
\* once.
C20_Witness ==
    \E p \in Procs : \E d \in store :
        /\ Created(p, d) /\ pc[p] = "done"
        /\ Len(get_raw_data(d)) = 2
        /\ Len(get_summary(d).equipment_types) = 1

\* The source row that the i-th surviving row of p's file comes from: the
\* i-th smallest index among the rows with a value in every required column.
NthComplete(p, i) ==
    CHOOSE k \in CompleteRows(p) : Cardinality({j \in CompleteRows(p) : j < k}) = i - 1

\* C21 (IngestSpec): the records of the Dataset an upload creates are the
\* rows of the file that have a value in every required column, in the
\* order the file has them: the i-th record holds the name, the type and the
\* numbers of the i-th such row, so dropping rows never reorders the rest.
C21_SourceOrder ==
    \A p \in Procs : \A d \in store :
        Created(p, d) =>
            /\ Len(get_raw_data(d)) = Cardinality(CompleteRows(p))
            /\ \A i \in 1..Len(get_raw_data(d)) :
                  LET rec == get_raw_data(d)[i]
                      row == req[p].content.rows[NthComplete(p, i)]
                  IN  /\ rec["Equipment Name"] = row["Equipment Name"]
                      /\ rec["Type"] = row["Type"]
                      /\ \A c \in NumericColumns :
                            IF IsNumLit(row[c])
                                THEN IsFinite(rec[c]) /\ rec[c].v = LitValue(row[c])
                                ELSE ~IsFinite(rec[c])

\* C21 witness: a file of three rows whose second row was dropped is stored
\* as its first row followed by its third row, and the two differ.
C21_Witness ==
    \E p \in Procs : \E d \in store :
        /\ Created(p, d) /\ pc[p] = "done" /\ resp[p].status = 201
        /\ Len(req[p].content.rows) = 3
        /\ CompleteRows(p) = {1, 3}
        /\ Len(get_raw_data(d)) = 2
        /\ get_raw_data(d)[1]["Equipment Name"] = req[p].content.rows[1]["Equipment Name"]
        /\ get_raw_data(d)[2]["Equipment Name"] = req[p].content.rows[3]["Equipment Name"]
        /\ get_raw_data(d)[1] # get_raw_data(d)[2]

\* A text cell without the blanks around it (Python's str.strip), on the cells
\* of the uploaded files.
Trim(s) ==
    CASE s = " Pump " -> "Pump"
      [] s = " P2 " -> "P2"
      [] OTHER -> s

\* C22 (IngestSpec): the name and the type of every record of the Dataset an
\* upload creates are trimmed, and type_distribution counts under one label
\* the rows whose types differ only by surrounding blanks ('Pump' and
\* ' Pump ' are one type).
C22_TextTrimmed ==
    \A p \in Procs : \A d \in store :
        Created(p, d) =>
            /\ \A i \in 1..Len(get_raw_data(d)) :
                  /\ get_raw_data(d)[i]["Equipment Name"]
                         = Trim(get_raw_data(d)[i]["Equipment Name"])
                  /\ get_raw_data(d)[i]["Type"] = Trim(get_raw_data(d)[i]["Type"])
            /\ \A t \in DOMAIN get_summary(d).type_distribution :
                  get_summary(d).type_distribution[t] =
                      Cardinality({i \in CompleteRows(p) :
                                      Trim(req[p].content.rows[i]["Type"]) = t})

\* C23 (ApiSpec): a read served while uploads are in progress sees whole
\* Datasets only: the Dataset get_dataset or get_latest_dataset returns has
\* record_count = number of records returned = summary.total_count, every
\* entry get_history returns has record_count = summary.total_count, and no
\* row of the table is half written.
C23_ConsistentSnapshot ==
    /\ \A d \in store :
          /\ d.record_count = Len(get_raw_data(d))
          /\ d.record_count = get_summary(d).total_count
    /\ \A p \in Procs :
          (pc[p] = "done" /\ resp[p].status = 200) =>
              /\ call[p].view \in {"get_dataset", "get_latest_dataset"} =>
                    /\ body[p].record_count = Len(body[p].raw_data_parsed)
                    /\ body[p].record_count = body[p].summary_parsed.total_count
              /\ call[p].view = "get_history" =>
                    \A i \in 1..Len(body[p]) :
                        body[p][i].record_count = body[p][i].summary_parsed.total_count

\* C23 witness: get_latest_dataset returned the two-record Dataset of an
\* upload whose handler has inserted the row and has not answered yet.
C23_Witness ==
    \E p \in Procs : \E q \in Procs \ {p} :
        /\ pc[p] = "done" /\ resp[p].status = 200
        /\ call[p].view = "get_latest_dataset"
        /\ pc[q] \in {"count", "read", "delete"}
        /\ body[p].id = dataset[q]
        /\ body[p].record_count = 2
        /\ Len(body[p].raw_data_parsed) = 2

\* C24 (RaceSpec): when an upload answers 201 with id X, Dataset X is in the
\* table at the moment that upload's own cleanup finishes, whatever the
\* other uploads did in between.
C24_AnsweredIdIsStored ==
    [][\A p \in Procs :
          (pc[p] # "done" /\ pc'[p] = "done" /\ resp'[p].status = 201) =>
              resp'[p].id \in Ids(store')]_vars

\* C25 (FaultSpec): an upload ends in one of two ways: it answers 201 and
\* its Dataset is in the table, or it answers 400 or 500 and no Dataset of
\* that upload is in the table; a failure raised after the create does not
\* leave the new Dataset behind an error response.
C25_TwoOutcomes ==
    [][\A p \in Procs :
          (pc[p] # "done" /\ pc'[p] = "done" /\ call'[p].view = "upload_csv") =>
              \/ /\ resp'[p].status = 201
                 /\ dataset'[p] \in Ids(store')
              \/ /\ resp'[p].status \in {400, 500}
                 /\ dataset'[p] \notin Ids(store')]_vars

\* C26 (ApiSpec): the create of an upload adds one row and removes none, and
\* a cleanup_old_records that counts at most KeepCount rows leaves the table
\* as it is and the upload answers 201; so after an explicit delete took the
\* table below the cap, the next upload adds its Dataset and evicts nothing.
C26_NoEvictionBelowCap ==
    [][\A p \in Procs :
          /\ (pc[p] = "recv" /\ pc'[p] = "count") =>
                /\ store \subseteq store'
                /\ Ids(store' \ store) = {dataset'[p]}
          /\ (pc[p] = "count" /\ pc'[p] # "count" /\ Cardinality(store) <= KeepCount) =>
                /\ store' = store
                /\ pc'[p] = "done" /\ resp'[p].status = 201
                /\ eviction'[p] = NoEviction]_vars

\* C26 witness: the table held KeepCount rows, one was deleted by
\* delete_dataset, and the upload that followed answered 201 with the other
\* rows and its own in the table.
C26_Witness ==
    \E p \in Procs :
        /\ pc[p] = "done" /\ call[p].view = "upload_csv" /\ resp[p].status = 201
        /\ Cardinality(deleted) = 1
        /\ deleted \subseteq 1..KeepCount
        /\ Ids(store) = ((1..KeepCount) \ deleted) \cup {dataset[p]}
        /\ Cardinality(store) = KeepCount
        /\ eviction[p] = NoEviction

\* C27 (IngestSpec): an upload with no 'file' field, or whose file name does
\* not end in '.csv', is answered 400 before the content is read: the step
\* parses nothing, creates no Dataset, runs no eviction and leaves the table
\* and the id counter as they were.
C27_RejectedBeforeRead ==
    [][\A p \in Procs :
          (/\ pc[p] = "recv" /\ pc'[p] # "recv"
           /\ (~req[p].has_file \/ ~EndsWithCsv(req[p].name))) =>
              /\ pc'[p] = "done"
              /\ resp'[p].status = 400
              /\ store' = store
              /\ nextId' = nextId
              /\ dataset'[p] = 0
              /\ eviction' = eviction
              /\ ids_to_keep' = ids_to_keep]_vars

\* C27 witness: a file named data.txt, whose content would fail after
\* parsing if it were read, was answered 400 while the table held the rows
\* of earlier uploads.
C27_Witness ==
    \E p \in Procs :
        /\ pc[p] = "done" /\ resp[p].status = 400
        /\ req[p].has_file /\ req[p].name = "data.txt"
        /\ req[p].content.rows = ExampleRows
        /\ Ingest_NameUnchecked(req[p], nextId, clock).status = 500
        /\ dataset[p] = 0
        /\ store = StoreAfter(KeepCount)

\* C28 (UploadTabSpec): at most one upload worker is in flight, and from
\* upload_file starting an APIWorker until on_upload_success or
\* on_upload_error has run the upload button is disabled, whatever the order
\* of file selections, clicks and worker completions.
C28_OneWorkerInFlight ==
    /\ Cardinality({p \in Procs : worker[p] # NoWorker}) <= 1
    /\ (\E p \in Procs : worker[p] # NoWorker) => ~upload_btn

\* C29 (MainWindowSpec): MainWindow.download_pdf shows the success message
\* only when the server answered 200 and the file was written; when the
\* current dataset is gone from the server (404) no success message is
\* shown.
C29_SuccessOnlyWhenSaved ==
    [][(pending.method = "download_pdf" /\ pending' = NoPending /\ message' = "Success") =>
          /\ resp[pending.p].status = 200
          /\ saved']_vars

\* The requests that carry the credentials in their body.
CredentialEndpoints == {"auth/login/", "auth/register/"}

\* A step changes the token only by a login or register that did not raise
\* (the token becomes one of the server's) or by a logout (the token becomes
\* None); a login or register that raised left it; logout leaves None.
TokenFrame ==
    /\ token' # token =>
          \/ called' \in {"login", "register"} /\ ~raised' /\ token' \in tokens'
          \/ called' = "logout" /\ token' = NoToken
    /\ (called' \in {"login", "register"} /\ raised') => token' = token
    /\ called' = "logout" => token' = NoToken

\* C30 as stated (TokenSpec): the token is set only by a successful login or
\* register, a failed one leaves it, logout leaves None whether or not its
\* request succeeded, and every request sent carries the Authorization
\* header exactly when the token is not None.
C30_HeaderOnEveryRequest ==
    [][/\ TokenFrame
       /\ sent'.endpoint # "none" =>
             ((sent'.authorization # NoToken) <=> (token # NoToken))]_vars

\* C30 amended (TokenSpec): the token is set only by a successful login or
\* register, a failed one leaves it, logout leaves None whether or not its
\* request succeeded; the login and register requests never carry the
\* Authorization header, and every other request carries it, with the
\* token as its value, exactly when the token is not None.
C30_TokenAndHeader ==
    [][/\ TokenFrame
       /\ sent'.endpoint \in CredentialEndpoints => sent'.authorization = NoToken
       /\ sent'.endpoint \notin CredentialEndpoints \cup {"none"} =>
             /\ (sent'.authorization # NoToken) <=> (token # NoToken)
             /\ sent'.authorization = token]_vars

\* C30 witness: logout was called with a token, its request carried the
\* token and did not reach the server (the server still has the token), and
\* the client's token is None.
C30_Witness ==
    /\ called = "logout"
    /\ sent.endpoint = "auth/logout/"
    /\ sent.authorization # NoToken
    /\ sent.authorization \in tokens
    /\ token = NoToken
====
